---- MODULE Spec2Model ----
(***************************************************************************)
(* Catalog browser, selection aggregator and SQL job execution of the      *)
(* Dremio workbench (pybern/ep).                                           *)
(*                                                                         *)
(* The module holds several specifications over one set of variables:      *)
(*   SpecSel   the selection set and its asynchronous column / child       *)
(*             dataset resolutions (DremioCatalog.handleToggleSelection,   *)
(*             loadContainerDatasets, handleClearSelection)                *)
(*   SpecTree  the lazily loaded catalog tree (fetchCatalog, loadChildren, *)
(*             loadDatasetDetails, CatalogTreeItem.handleToggle)           *)
(*   SpecEditor  the SQL editor panel (SqlEditor.executeQuery)             *)
(*   SpecJob   one request of the SQL route: submit, poll, fetch results   *)
(*   SpecCatalogRoute  one request of the catalog route                    *)
(*   SpecContext  the data context the chat sidebar derives from the       *)
(*             selection and the active workspace (buildDataContext),      *)
(*             under selection changes and workspace switches              *)
(*   SpecDb    the linked tables of the workspace database (linkTable,     *)
(*             unlinkTable)                                                *)
(* Every specification freezes the variables of the other subsystems.      *)
(***************************************************************************)
EXTENDS Integers, Sequences, FiniteSets, Bags, TLC

VARIABLES
    selectedItems,  \* Page state selectedCatalogItems: sequence of SelectedCatalogItem
    flows,          \* suspended handleToggleSelection continuations (awaiting a fetch)
    cleared,        \* history: TRUE from handleClearSelection until the next toggle
    catalog,        \* DremioCatalog state: the tree, a sequence of CatalogItem
    isLoading,      \* DremioCatalog state: top-level listing in flight
    error,          \* DremioCatalog state: NONE for null
    expanded,       \* ids of the mounted CatalogTreeItems whose isExpanded is true
    treeFetches,    \* bag of the loadChildren / loadDatasetDetails calls awaiting their fetch
    replacedInFlight, \* history: a refresh replaced the tree while such a fetch was in flight
    orphanCompletion, \* history: a fetch returned for a node id that is not in the tree
    isExecuting,    \* SqlEditor state
    result,         \* SqlEditor state: << >> for null, else <<QueryResult>>
    requests,       \* SqlEditor: query numbers of the /api/dremio/sql requests in flight
    submitted,      \* history: number of queries submitted so far (the latest query)
    jobPc,          \* SQL route: the await the request is suspended at
    jobStatus,      \* SQL route: local jobStatus
    attempts,       \* SQL route: local attempts
    statusCalls,    \* history: GET /api/v3/job/{id} status polls issued
    detailsCalls,   \* history: GET /api/v3/job/{id} detail requests issued
    resultsCalls,   \* history: GET /api/v3/job/{id}/results requests issued
    runningPolls,   \* history: status polls answered RUNNING, STARTING or ENQUEUED
    response,       \* SQL route: << >> until the Response is returned, then <<Response>>
    activeWorkspaceId, \* ChatSidebar (useActiveWorkspace): NONE for null
    dataContext,    \* ChatSidebar state: << >> for undefined, else <<DataContext>>
    builds,         \* ChatSidebar: workspace ids of the buildDataContext calls awaiting the database
    catRequest,     \* catalog route: the JSON body of the request
    catPc,          \* catalog route: "idle", "start", "fetch" (awaiting the remote), "done"
    catUrl,         \* catalog route: local catalogUrl
    catResponse,    \* catalog route: << >> until the Response is returned
    linkedTables,   \* workspace database: the records of the store linkedTables
    dbCalls,        \* linkTable calls suspended at an await of the database
    issuedIds,      \* number of ids generateId has handed out
    lastReturn      \* << >>, or <<LinkedTable>> the linkTable call that returned last resolved to

selVars == <<selectedItems, flows, cleared>>
treeVars == <<catalog, isLoading, error, expanded, treeFetches, replacedInFlight,
              orphanCompletion>>
editorVars == <<isExecuting, result, requests, submitted>>
jobVars == <<jobPc, jobStatus, attempts, statusCalls, detailsCalls, resultsCalls, runningPolls, response>>
ctxVars == <<activeWorkspaceId, dataContext, builds>>
catRouteVars == <<catRequest, catPc, catUrl, catResponse>>
dbVars == <<linkedTables, dbCalls, issuedIds, lastReturn>>
vars == <<selVars, treeVars, editorVars, jobVars, ctxVars, catRouteVars, dbVars>>

(***************************************************************************)
(* Bounds                                                                  *)
(***************************************************************************)
\* number of selection resolutions that may be suspended at the same time
MaxFlows == 2

(***************************************************************************)
(* The remote catalog service (an input of the program): entities as the   *)
(* catalog API returns them.                                               *)
(***************************************************************************)
NONE == "NONE"

Entity(id, path, type, containerType) ==
    [id |-> id, path |-> path, type |-> type, containerType |-> containerType]

RemoteTop ==
    << Entity("k", <<"sales">>, "CONTAINER", "SPACE") >>

RemoteChildren(id) ==
    IF id = "k"
    THEN << Entity("t1", <<"sales", "eu">>, "DATASET", NONE),
            Entity("s", <<"sales", "archive">>, "CONTAINER", "FOLDER"),
            Entity("t2", <<"sales", "us">>, "DATASET", NONE) >>
    ELSE IF id = "s"
    THEN << Entity("t3", <<"sales", "archive", "old">>, "DATASET", NONE) >>
    ELSE << >>

\* field metadata {name, type: {name, precision?, scale?}}; -1 stands for undefined
Field(name, tname, precision, scale) ==
    [name |-> name, type |-> [name |-> tname, precision |-> precision, scale |-> scale]]

RemoteFields(id) ==
    IF id \in {"t1", "t3"}
    THEN << Field("id", "INTEGER", -1, -1), Field("amount", "DECIMAL", 10, 2) >>
    ELSE IF id = "t2"
    THEN << Field("name", "VARCHAR", 255, -1) >>
    ELSE << >>

(***************************************************************************)
(* Pure helpers                                                            *)
(***************************************************************************)
\* Array.prototype.join(".")
RECURSIVE JoinPath(_)
JoinPath(path) ==
    IF Len(path) = 0 THEN ""
    ELSE IF Len(path) = 1 THEN path[1]
    ELSE path[1] \o "." \o JoinPath(Tail(path))

formatColumnType(type) ==
    IF type.precision # -1
    THEN IF type.scale # -1
         THEN type.name \o "(" \o ToString(type.precision) \o "," \o ToString(type.scale) \o ")"
         ELSE type.name \o "(" \o ToString(type.precision) \o ")"
    ELSE type.name

\* data.fields.map(field => ({name, type: formatColumnType(field.type)}))
ToColumns(fields) ==
    [i \in 1..Len(fields) |-> [name |-> fields[i].name, type |-> formatColumnType(fields[i].type)]]

RemoveAt(s, k) == [i \in 1..(Len(s) - 1) |-> IF i < k THEN s[i] ELSE s[i + 1]]

Paths(items) == {items[i].path : i \in 1..Len(items)}

\* mutant: the lookup compares the path with the entries' ids
IsSelected_ById(items, itemPath) == itemPath \in {items[i].id : i \in 1..Len(items)}

\* selectedItemsMap.has(itemPath)
IsSelected(items, itemPath) == itemPath \in Paths(items)

(***************************************************************************)
(* Selection aggregator                                                    *)
(***************************************************************************)
\* mutant: the new entry is inserted without its loading flag
NewItem_NotLoading(item) ==
    [ id |-> item.id,
      path |-> JoinPath(item.path),
      type |-> IF item.type = "DATASET" THEN "DATASET" ELSE "CONTAINER",
      containerType |-> item.containerType,
      columns |-> << >>,
      columnsLoaded |-> FALSE,
      columnsLoading |-> FALSE,
      childDatasets |-> << >>,
      childDatasetsLoaded |-> FALSE,
      childDatasetsLoading |-> FALSE ]

\* the SelectedCatalogItem built on toggle-on
NewItem(item) ==
    [ id |-> item.id,
      path |-> JoinPath(item.path),
      type |-> IF item.type = "DATASET" THEN "DATASET" ELSE "CONTAINER",
      containerType |-> item.containerType,
      columns |-> << >>,
      columnsLoaded |-> FALSE,
      columnsLoading |-> item.type = "DATASET",
      childDatasets |-> << >>,
      childDatasetsLoaded |-> FALSE,
      childDatasetsLoading |-> item.type = "CONTAINER" ]

\* selectedItems.filter(i => i.path !== itemPath)
RemovePath(items, itemPath) ==
    LET Keep(i) == i.path # itemPath IN SelectSeq(items, Keep)

\* newItems.map(i => i.path === itemPath ? {...i, columns, columnsLoaded: true, columnsLoading: false} : i)
SetColumns(items, itemPath, columns) ==
    [i \in 1..Len(items) |->
        IF items[i].path = itemPath
        THEN [items[i] EXCEPT !.columns = columns, !.columnsLoaded = TRUE, !.columnsLoading = FALSE]
        ELSE items[i]]

\* mutant: the failure branch forgets to clear columnsLoading
MarkColumnsLoaded_StillLoading(items, itemPath) ==
    [i \in 1..Len(items) |->
        IF items[i].path = itemPath
        THEN [items[i] EXCEPT !.columnsLoaded = TRUE]
        ELSE items[i]]

\* newItems.map(i => i.path === itemPath ? {...i, columnsLoaded: true, columnsLoading: false} : i)
MarkColumnsLoaded(items, itemPath) ==
    [i \in 1..Len(items) |->
        IF items[i].path = itemPath
        THEN [items[i] EXCEPT !.columnsLoaded = TRUE, !.columnsLoading = FALSE]
        ELSE items[i]]

\* currentItems.map(i => i.path === containerPath ? {...i, childDatasets, ...} : i)
SetChildDatasets(items, containerPath, childDatasets) ==
    [i \in 1..Len(items) |->
        IF items[i].path = containerPath
        THEN [items[i] EXCEPT !.childDatasets = childDatasets,
                              !.childDatasetsLoaded = TRUE,
                              !.childDatasetsLoading = FALSE]
        ELSE items[i]]

\* mutant: the failure branch forgets to clear childDatasetsLoading
MarkChildDatasetsLoaded_StillLoading(items, containerPath) ==
    [i \in 1..Len(items) |->
        IF items[i].path = containerPath
        THEN [items[i] EXCEPT !.childDatasetsLoaded = TRUE]
        ELSE items[i]]

\* currentItems.map(i => i.path === containerPath ? {...i, childDatasetsLoaded: true, ...} : i)
MarkChildDatasetsLoaded(items, containerPath) ==
    [i \in 1..Len(items) |->
        IF items[i].path = containerPath
        THEN [items[i] EXCEPT !.childDatasetsLoaded = TRUE, !.childDatasetsLoading = FALSE]
        ELSE items[i]]

\* Page.handleSelectionChange: the parent stores the list it is handed
handleSelectionChange(items) == selectedItems' = items

\* index of the first child of type DATASET at position >= from, 0 when there is none
\* (the for loop of loadContainerDatasets skips every other child)
NextDataset(children, from) ==
    LET S == {i \in from..Len(children) : children[i].type = "DATASET"}
    IN IF S = {} THEN 0 ELSE CHOOSE i \in S : \A j \in S : i <= j

\* the checkboxes the user clicks: the top-level container and its first
\* dataset (mounted once the container is expanded)
SelectableItems == {RemoteTop[1], RemoteChildren(RemoteTop[1].id)[1]}

FetchResponses == {"fields", "nofields", "throw"}
ListingResponses == {"children", "nochildren", "throw"}

\* handleToggleSelection up to its first await
handleToggleSelection(item) ==
    LET itemPath == JoinPath(item.path) IN
    /\ IF IsSelected(selectedItems, itemPath)
       THEN /\ handleSelectionChange(RemovePath(selectedItems, itemPath))
            /\ UNCHANGED flows
       ELSE /\ Len(flows) < MaxFlows
            /\ LET newItems == Append(selectedItems, NewItem(item)) IN
               /\ handleSelectionChange(newItems)
               /\ flows' = Append(flows,
                     [ item |-> item,
                       newItems |-> newItems,
                       pc |-> IF item.type = "DATASET" THEN "columns" ELSE "listing",
                       next |-> 0,
                       childDatasets |-> << >> ])
    /\ cleared' = FALSE

\* handleToggleSelection, dataset branch, after the schema fetch returned
ColumnsReturn(k, resp) ==
    /\ k \in 1..Len(flows)
    /\ flows[k].pc = "columns"
    /\ LET f == flows[k]
           itemPath == JoinPath(f.item.path)
       IN handleSelectionChange(
              IF resp = "fields"
              THEN SetColumns(f.newItems, itemPath, ToColumns(RemoteFields(f.item.id)))
              ELSE MarkColumnsLoaded(f.newItems, itemPath))
    /\ flows' = RemoveAt(flows, k)
    /\ UNCHANGED cleared

\* loadContainerDatasets: the rest of the loop from child index `from`, run until
\* the next await (a child schema fetch) or, past the last child, the final merge
ContinueContainer(k, from, acc) ==
    LET f == flows[k]
        children == RemoteChildren(f.item.id)
        n == NextDataset(children, from)
    IN IF n = 0
       THEN /\ handleSelectionChange(SetChildDatasets(f.newItems, JoinPath(f.item.path), acc))
            /\ flows' = RemoveAt(flows, k)
       ELSE /\ flows' = [flows EXCEPT ![k] = [f EXCEPT !.pc = "child", !.next = n, !.childDatasets = acc]]
            /\ UNCHANGED selectedItems

\* loadContainerDatasets after the child listing returned
ListingReturn(k, resp) ==
    /\ k \in 1..Len(flows)
    /\ flows[k].pc = "listing"
    /\ IF resp = "children"
       THEN ContinueContainer(k, 1, << >>)
       ELSE /\ handleSelectionChange(
                  MarkChildDatasetsLoaded(flows[k].newItems, JoinPath(flows[k].item.path)))
            /\ flows' = RemoveAt(flows, k)
    /\ UNCHANGED cleared

\* mutant: a failed child schema fetch is not caught per child; it ends the
\* loop in the outer catch block
ChildReturn_AbortOnFailure(k, resp) ==
    /\ k \in 1..Len(flows)
    /\ flows[k].pc = "child"
    /\ LET f == flows[k]
           child == RemoteChildren(f.item.id)[f.next]
       IN IF resp = "throw"
          THEN /\ handleSelectionChange(MarkChildDatasetsLoaded(f.newItems, JoinPath(f.item.path)))
               /\ flows' = RemoveAt(flows, k)
          ELSE ContinueContainer(k, f.next + 1,
                   Append(f.childDatasets,
                       [ path |-> JoinPath(child.path),
                         columns |-> IF resp = "fields"
                                     THEN ToColumns(RemoteFields(child.id)) ELSE << >> ]))
    /\ UNCHANGED cleared

\* loadContainerDatasets after the schema fetch of one child dataset returned
ChildReturn(k, resp) ==
    /\ k \in 1..Len(flows)
    /\ flows[k].pc = "child"
    /\ LET f == flows[k]
           child == RemoteChildren(f.item.id)[f.next]
           columns == IF resp = "fields" THEN ToColumns(RemoteFields(child.id)) ELSE << >>
       IN ContinueContainer(k, f.next + 1,
              Append(f.childDatasets, [path |-> JoinPath(child.path), columns |-> columns]))
    /\ UNCHANGED cleared

\* handleClearSelection (the button is rendered only while something is selected)
handleClearSelection ==
    /\ Len(selectedItems) > 0
    /\ handleSelectionChange(<< >>)
    /\ cleared' = TRUE
    /\ UNCHANGED flows

ToggleSelection == \E item \in SelectableItems : handleToggleSelection(item)
DatasetResolved == \E k \in 1..Len(flows), resp \in FetchResponses : ColumnsReturn(k, resp)
ContainerListed == \E k \in 1..Len(flows), resp \in ListingResponses : ListingReturn(k, resp)
ChildResolved == \E k \in 1..Len(flows), resp \in FetchResponses : ChildReturn(k, resp)

SelInit ==
    /\ selectedItems = << >>
    /\ flows = << >>
    /\ cleared = FALSE


(***************************************************************************)
(* Catalog tree cache                                                      *)
(***************************************************************************)
\* number of child / field fetches of the tree that may be in flight together
MaxTreeFetches == 2

\* a CatalogItem as fetchCatalog and loadChildren build it from an API entity
NewNode(entity) ==
    [ id |-> entity.id,
      path |-> entity.path,
      type |-> entity.type,
      containerType |-> entity.containerType,
      children |-> << >>,
      fields |-> << >>,
      isLoaded |-> FALSE,
      isLoading |-> FALSE ]

\* (data.data || []).map(...), (data.children || []).map(...)
ToNodes(entities) == [i \in 1..Len(entities) |-> NewNode(entities[i])]

\* { ...item, ...updates }
Merge(item, updates) ==
    [f \in DOMAIN item |-> IF f \in DOMAIN updates THEN updates[f] ELSE item[f]]

\* mutant: the level that holds the target keeps only the target (filter, then map)
RECURSIVE updateItemInTree_DropSiblings(_, _, _)
updateItemInTree_DropSiblings(items, id, updates) ==
    IF \E i \in 1..Len(items) : items[i].id = id
    THEN LET Hit(item) == item.id = id
         IN [i \in 1..Len(SelectSeq(items, Hit)) |-> Merge(SelectSeq(items, Hit)[i], updates)]
    ELSE [i \in 1..Len(items) |->
            [items[i] EXCEPT !.children = updateItemInTree_DropSiblings(@, id, updates)]]

\* mutant: only the level it is called on is searched, not the children
updateItemInTree_TopLevelOnly(items, id, updates) ==
    [i \in 1..Len(items) |->
        IF items[i].id = id THEN Merge(items[i], updates) ELSE items[i]]

\* mutant: an update whose id matches no node of the list adds the node
updateItemInTree_InsertMissing(items, id, updates) ==
    IF \E i \in 1..Len(items) : items[i].id = id
    THEN [i \in 1..Len(items) |->
            IF items[i].id = id THEN Merge(items[i], updates) ELSE items[i]]
    ELSE IF Len(items) = 0 THEN items
    ELSE Append(items, Merge([items[1] EXCEPT !.id = id], updates))

RECURSIVE updateItemInTree(_, _, _)
updateItemInTree(items, id, updates) ==
    [i \in 1..Len(items) |->
        IF items[i].id = id
        THEN Merge(items[i], updates)
        ELSE [items[i] EXCEPT !.children = updateItemInTree(@, id, updates)]]

\* every node of the tree, each with its whole subtree
RECURSIVE NodesOf(_)
NodesOf(items) ==
    UNION { {items[i]} \cup NodesOf(items[i].children) : i \in 1..Len(items) }

IdsOf(items) == {n.id : n \in NodesOf(items)}

\* the nodes that have a mounted CatalogTreeItem: the top level, and the
\* children of every mounted container whose isExpanded is true
RECURSIVE Mounted(_, _)
Mounted(items, exp) ==
    UNION { {items[i]} \cup
            (IF items[i].id \in exp /\ items[i].type = "CONTAINER"
             THEN Mounted(items[i].children, exp) ELSE {}) : i \in 1..Len(items) }

\* isExpanded is component state: it is lost when the component unmounts
KeepMounted(exp, items) == exp \cap {n.id : n \in Mounted(items, exp)}

\* the tree is on screen (not the first-load spinner, not the error panel)
TreeShown == ~(isLoading /\ Len(catalog) = 0) /\ error = NONE

\* mutant: the guard forgets the fetch that is already in flight
ShouldLoad_IgnoreLoading(newExpanded, item) == newExpanded /\ ~item.isLoaded

\* mutant: the guard forgets that the node is loaded already
ShouldLoad_IgnoreLoaded(newExpanded, item) == newExpanded /\ ~item.isLoading

\* if (newExpanded && !item.isLoaded && !item.isLoading)
ShouldLoad(newExpanded, item) == newExpanded /\ ~item.isLoaded /\ ~item.isLoading

\* fetchCatalog up to its await (mount effect, Refresh button, Retry button)
fetchCatalog ==
    /\ ~isLoading
    /\ isLoading' = TRUE
    /\ error' = NONE
    /\ UNCHANGED <<catalog, expanded, treeFetches, replacedInFlight, orphanCompletion>>

\* mutant: a failed listing empties the tree
CatalogReturn_ClearOnFail(resp) ==
    /\ isLoading
    /\ IF resp = "ok"
       THEN /\ catalog' = ToNodes(RemoteTop)
            /\ expanded' = KeepMounted(expanded, ToNodes(RemoteTop))
            /\ replacedInFlight' = (replacedInFlight \/ treeFetches # EmptyBag)
            /\ UNCHANGED <<error, treeFetches>>
       ELSE /\ error' = "Failed to fetch catalog"
            /\ catalog' = << >>
            /\ expanded' = {}
            /\ UNCHANGED <<treeFetches, replacedInFlight>>
    /\ isLoading' = FALSE
    /\ UNCHANGED orphanCompletion

\* fetchCatalog after the top-level listing returned; the error panel takes
\* the place of the tree, so every CatalogTreeItem unmounts on failure
CatalogReturn(resp) ==
    /\ isLoading
    /\ IF resp = "ok"
       THEN /\ catalog' = ToNodes(RemoteTop)
            /\ expanded' = KeepMounted(expanded, ToNodes(RemoteTop))
            /\ replacedInFlight' = (replacedInFlight \/ treeFetches # EmptyBag)
            /\ UNCHANGED <<error, treeFetches>>
       ELSE /\ error' = "Failed to fetch catalog"
            /\ expanded' = {}
            /\ UNCHANGED <<catalog, treeFetches, replacedInFlight>>
    /\ isLoading' = FALSE
    /\ UNCHANGED orphanCompletion

\* CatalogTreeItem.handleToggle with loadChildren / loadDatasetDetails up to the await
handleToggle(item) ==
    /\ TreeShown
    /\ item \in Mounted(catalog, expanded)
    /\ item.type \in {"CONTAINER", "DATASET"}
    /\ LET newExpanded == item.id \notin expanded
           exp == IF newExpanded THEN expanded \cup {item.id} ELSE expanded \ {item.id}
       IN IF ShouldLoad(newExpanded, item)
          THEN /\ BagCardinality(treeFetches) < MaxTreeFetches
               /\ catalog' = updateItemInTree(catalog, item.id, [isLoading |-> TRUE])
               /\ treeFetches' = treeFetches (+) SetToBag({
                      [ id |-> item.id,
                        kind |-> IF item.type = "DATASET" THEN "fields" ELSE "children" ]})
               /\ expanded' = KeepMounted(exp, catalog')
          ELSE /\ expanded' = KeepMounted(exp, catalog)
               /\ UNCHANGED <<catalog, treeFetches>>
    /\ UNCHANGED <<isLoading, error, replacedInFlight, orphanCompletion>>

\* mutant: the catch block forgets to clear the loading mark
LoadedUpdates_FailKeepsLoading(fetch, resp) ==
    IF fetch.kind = "children"
    THEN [ children |-> IF resp = "ok" THEN ToNodes(RemoteChildren(fetch.id)) ELSE << >>,
           isLoaded |-> TRUE, isLoading |-> (resp # "ok") ]
    ELSE [ fields |-> IF resp = "ok" THEN RemoteFields(fetch.id) ELSE << >>,
           isLoaded |-> TRUE, isLoading |-> (resp # "ok") ]

\* the updates loadChildren / loadDatasetDetails apply when their fetch returned
LoadedUpdates(fetch, resp) ==
    IF fetch.kind = "children"
    THEN [ children |-> IF resp = "ok" THEN ToNodes(RemoteChildren(fetch.id)) ELSE << >>,
           isLoaded |-> TRUE, isLoading |-> FALSE ]
    ELSE [ fields |-> IF resp = "ok" THEN RemoteFields(fetch.id) ELSE << >>,
           isLoaded |-> TRUE, isLoading |-> FALSE ]

\* loadChildren / loadDatasetDetails after the await
TreeFetchReturn(fetch, resp) ==
    /\ BagIn(fetch, treeFetches)
    /\ catalog' = updateItemInTree(catalog, fetch.id, LoadedUpdates(fetch, resp))
    /\ expanded' = KeepMounted(expanded, catalog')
    /\ treeFetches' = treeFetches (-) SetToBag({fetch})
    /\ orphanCompletion' = (orphanCompletion \/ fetch.id \notin IdsOf(catalog))
    /\ UNCHANGED <<isLoading, error, replacedInFlight>>

CatalogReturned == \E resp \in {"ok", "fail"} : CatalogReturn(resp)
ToggleExpand == \E item \in Mounted(catalog, expanded) : handleToggle(item)
TreeFetchReturned ==
    \E fetch \in BagToSet(treeFetches), resp \in {"ok", "fail"} : TreeFetchReturn(fetch, resp)

TreeInit ==
    /\ catalog = << >>
    /\ expanded = {}
    /\ treeFetches = EmptyBag
    /\ replacedInFlight = FALSE
    /\ orphanCompletion = FALSE
    /\ isLoading = FALSE
    /\ error = NONE

(***************************************************************************)
(* SQL editor panel                                                        *)
(***************************************************************************)
\* number of queries submitted in one run of the model
MaxQueries == 5

\* what fetch("/api/dremio/sql") gives the editor: a 200 response, a non-ok
\* response with {error, details}, or a rejected promise
QueryOutcomes == {"ok", "notok", "throw"}

\* the QueryResult the editor stores for query q (jobId 0 stands for "");
\* `of` is history: the query the stored result belongs to
QueryResultOf(q, outcome) ==
    IF outcome = "ok"
    THEN [of |-> q, jobId |-> q, rowCount |-> 1, error |-> NONE]
    ELSE IF outcome = "notok"
    THEN [of |-> q, jobId |-> 0, rowCount |-> 0, error |-> "data.error"]
    ELSE [of |-> q, jobId |-> 0, rowCount |-> 0, error |-> "error.message"]

\* executeQuery up to its await
executeQuery ==
    /\ submitted < MaxQueries
    /\ isExecuting' = TRUE
    /\ result' = << >>
    /\ submitted' = submitted + 1
    /\ requests' = Append(requests, submitted + 1)

\* the Run Query button, disabled while isExecuting
RunButtonClick ==
    /\ ~isExecuting
    /\ executeQuery

\* Ctrl/Cmd+Enter in the textarea: handleKeyDown calls executeQuery unconditionally
handleKeyDown == executeQuery

\* executeQuery after its await: setResult, then finally setIsExecuting(false)
QueryReturn(k, outcome) ==
    /\ k \in 1..Len(requests)
    /\ result' = << QueryResultOf(requests[k], outcome) >>
    /\ isExecuting' = FALSE
    /\ requests' = RemoveAt(requests, k)
    /\ UNCHANGED submitted

QueryReturned == \E k \in 1..Len(requests), outcome \in QueryOutcomes : QueryReturn(k, outcome)

EditorInit ==
    /\ isExecuting = FALSE
    /\ result = << >>
    /\ requests = << >>
    /\ submitted = 0


(***************************************************************************)
(* SQL route: POST /api/dremio/sql                                         *)
(***************************************************************************)
maxAttempts == 60

\* jobState values of the remote job API
JobStates == {"ENQUEUED", "STARTING", "RUNNING", "COMPLETED", "FAILED", "CANCELED"}

\* statusData.jobState is typed string: the route takes whatever the job API
\* reports; PLANNING stands for the states outside the six above
RemoteJobStates == JobStates \cup {"PLANNING"}

\* the while condition of the polling loop
StillRunning(status) == status \in {"RUNNING", "STARTING", "ENQUEUED"}

\* mutant: the ceiling is tested with > instead of >=
AttemptsExhausted_OffByOne(n) == n > maxAttempts

\* if (attempts >= maxAttempts)
AttemptsExhausted(n) == n >= maxAttempts

\* mutant: the state is reported as the job API spells it
ToLowerCase_Identity(status) == status

\* String.prototype.toLowerCase on the two states that reach it
ToLowerCase(status) ==
    IF status = "FAILED" THEN "failed"
    ELSE IF status = "CANCELED" THEN "canceled"
    ELSE status

\* status of a non-ok answer of the remote service, passed through by the route
RemoteErrorStatus == 503

Respond(status, message, details, jobId) ==
    /\ response' = << [status |-> status, error |-> message, details |-> details, jobId |-> jobId] >>
    /\ jobPc' = "done"

\* the catch block of the route: any rejected fetch or failed json()
RespondThrown == Respond(500, "error.message", NONE, NONE)

\* request validation, then the submit call is issued
JobStart(input) ==
    /\ jobPc = "start"
    /\ IF input = "nocreds"
       THEN Respond(400, "Dremio endpoint and PAT are required", NONE, NONE)
       ELSE IF input = "nosql"
       THEN Respond(400, "SQL query is required", NONE, NONE)
       ELSE jobPc' = "submit" /\ UNCHANGED response
    /\ UNCHANGED <<jobStatus, attempts, statusCalls, detailsCalls, resultsCalls, runningPolls>>

\* the head of the polling loop and what follows it, run until the next await
PollLoop(status, n) ==
    IF StillRunning(status)
    THEN IF AttemptsExhausted(n)
         THEN /\ Respond(408, "Query timeout - job still running", NONE, NONE)
              /\ UNCHANGED <<statusCalls, detailsCalls, resultsCalls>>
         ELSE /\ jobPc' = "sleep"
              /\ UNCHANGED <<response, statusCalls, detailsCalls, resultsCalls>>
    ELSE IF status \in {"FAILED", "CANCELED"}
    THEN /\ jobPc' = "details"
         /\ detailsCalls' = detailsCalls + 1
         /\ UNCHANGED <<response, statusCalls, resultsCalls>>
    ELSE /\ jobPc' = "results"
         /\ resultsCalls' = resultsCalls + 1
         /\ UNCHANGED <<response, statusCalls, detailsCalls>>

\* mutant: a failed submit is not noticed and the polling loop is entered
SubmitReturn_PollAnyway(resp) ==
    /\ jobPc = "submit"
    /\ jobStatus' = "RUNNING"
    /\ attempts' = 0
    /\ PollLoop("RUNNING", 0)
    /\ UNCHANGED runningPolls

\* the submit call returned
SubmitReturn(resp) ==
    /\ jobPc = "submit"
    /\ IF resp = "notok"
       THEN /\ Respond(RemoteErrorStatus,
                       "Dremio SQL error: " \o ToString(RemoteErrorStatus), "errorText", NONE)
            /\ UNCHANGED <<jobStatus, attempts, statusCalls, detailsCalls, resultsCalls>>
       ELSE IF resp = "throw"
       THEN /\ RespondThrown
            /\ UNCHANGED <<jobStatus, attempts, statusCalls, detailsCalls, resultsCalls>>
       ELSE /\ jobStatus' = "RUNNING"
            /\ attempts' = 0
            /\ PollLoop("RUNNING", 0)
    /\ UNCHANGED runningPolls

\* the one second timer fired: attempts++ and the status poll is issued
SleepReturn ==
    /\ jobPc = "sleep"
    /\ attempts' = attempts + 1
    /\ statusCalls' = statusCalls + 1
    /\ jobPc' = "status"
    /\ UNCHANGED <<jobStatus, detailsCalls, resultsCalls, runningPolls, response>>

\* the status poll returned
StatusReturn(resp) ==
    /\ jobPc = "status"
    /\ IF resp = "notok"
       THEN /\ Respond(RemoteErrorStatus,
                       "Failed to get job status: " \o ToString(RemoteErrorStatus), "errorText", NONE)
            /\ UNCHANGED <<jobStatus, attempts, statusCalls, detailsCalls, resultsCalls>>
       ELSE IF resp = "throw"
       THEN /\ RespondThrown
            /\ UNCHANGED <<jobStatus, attempts, statusCalls, detailsCalls, resultsCalls>>
       ELSE /\ jobStatus' = resp
            /\ UNCHANGED attempts
            /\ PollLoop(resp, attempts)
    /\ runningPolls' = IF StillRunning(resp) THEN runningPolls + 1 ELSE runningPolls

\* the job detail request returned (resp: errorMessage present, absent, or a throw)
DetailsReturn(resp) ==
    /\ jobPc = "details"
    /\ IF resp = "throw"
       THEN RespondThrown
       ELSE Respond(400, "Query " \o ToLowerCase(jobStatus),
                    IF resp = "errorMessage" THEN "detailsData.errorMessage" ELSE "Unknown error",
                    NONE)
    /\ UNCHANGED <<jobStatus, attempts, statusCalls, detailsCalls, resultsCalls, runningPolls>>

\* the results request returned
ResultsReturn(resp) ==
    /\ jobPc = "results"
    /\ IF resp = "notok"
       THEN Respond(RemoteErrorStatus,
                    "Failed to get results: " \o ToString(RemoteErrorStatus), "errorText", NONE)
       ELSE IF resp = "throw"
       THEN RespondThrown
       ELSE Respond(200, NONE, NONE, "jobData.id")
    /\ UNCHANGED <<jobStatus, attempts, statusCalls, detailsCalls, resultsCalls, runningPolls>>

JobStarted == \E input \in {"valid", "nocreds", "nosql"} : JobStart(input)
JobSubmitted == \E resp \in {"ok", "notok", "throw"} : SubmitReturn(resp)
JobPolled == \E resp \in RemoteJobStates \cup {"notok", "throw"} : StatusReturn(resp)
JobDetailed == \E resp \in {"errorMessage", "noMessage", "throw"} : DetailsReturn(resp)
JobResults == \E resp \in {"ok", "notok", "throw"} : ResultsReturn(resp)

JobInit ==
    /\ jobPc = "start"
    /\ jobStatus = NONE
    /\ attempts = 0
    /\ statusCalls = 0
    /\ detailsCalls = 0
    /\ resultsCalls = 0
    /\ runningPolls = 0
    /\ response = << >>


(***************************************************************************)
(* Catalog route: POST /api/dremio/catalog                                 *)
(***************************************************************************)
\* String.prototype.trim and the removal of one trailing "/" on the
\* endpoints a request may carry
CleanEndpoint(endpoint) ==
    IF endpoint \in {"https://dremio", "https://dremio/", " https://dremio/ "}
    THEN "https://dremio"
    ELSE endpoint

\* encodeURIComponent on the paths a request may carry
encodeURIComponent(s) ==
    IF s = "sales/archive" THEN "sales%2Farchive" ELSE s

\* the JSON bodies the route is called with: the client sends id (never
\* path) for a node, and neither for the top-level listing
CatalogRequests ==
    [ endpoint : {"", "https://dremio", "https://dremio/"},
      pat : {"", "pat"},
      id : {NONE, "k", "s", "t1"},
      path : {NONE, "sales", "sales/archive"} ]

\* the remote catalog API: what GET on a URL returns when it succeeds
RemoteListing == [kind |-> "listing", id |-> NONE, data |-> RemoteTop,
                  children |-> << >>, fields |-> << >>]

RemoteEntity(id) == [kind |-> "entity", id |-> id, data |-> << >>,
                     children |-> RemoteChildren(id), fields |-> RemoteFields(id)]

RemoteGet(url) ==
    IF url = "https://dremio/api/v3/catalog" THEN << RemoteListing >>
    ELSE IF url = "https://dremio/api/v3/catalog/by-path/sales" THEN << RemoteEntity("k") >>
    ELSE IF \E id \in {"k", "s", "t1", "t2", "t3"} : url = "https://dremio/api/v3/catalog/" \o id
    THEN << RemoteEntity(CHOOSE id \in {"k", "s", "t1", "t2", "t3"} :
                             url = "https://dremio/api/v3/catalog/" \o id) >>
    ELSE << >>

\* let catalogUrl = ...; if (path) catalogUrl = .../by-path/...
\* (the body is destructured into endpoint, pat, path, sslVerify only)
CatalogUrl(baseUrl, body) ==
    IF body.path # NONE
    THEN baseUrl \o "/api/v3/catalog/by-path/" \o encodeURIComponent(body.path)
    ELSE baseUrl \o "/api/v3/catalog"

CatalogRespond(status, message, body) ==
    /\ catResponse' = << [status |-> status, error |-> message, body |-> body] >>
    /\ catPc' = "done"

\* POST up to the await of the remote call
CatalogRouteStart ==
    /\ catPc = "start"
    /\ IF catRequest.endpoint = "" \/ catRequest.pat = ""
       THEN /\ CatalogRespond(400, "Dremio endpoint and PAT are required", << >>)
            /\ UNCHANGED catUrl
       ELSE /\ catUrl' = CatalogUrl(CleanEndpoint(catRequest.endpoint), catRequest)
            /\ catPc' = "fetch"
            /\ UNCHANGED catResponse
    /\ UNCHANGED catRequest

\* POST after the remote call returned
CatalogRouteReturn(resp) ==
    /\ catPc = "fetch"
    /\ IF resp = "ok"
       THEN /\ RemoteGet(catUrl) # << >>
            /\ CatalogRespond(200, NONE, RemoteGet(catUrl))
       ELSE IF resp = "notok"
       THEN CatalogRespond(RemoteErrorStatus,
                           "Dremio API error: " \o ToString(RemoteErrorStatus), << >>)
       ELSE CatalogRespond(500, "error.message", << >>)
    /\ UNCHANGED <<catRequest, catUrl>>

CatalogRouteReturned == \E resp \in {"ok", "notok", "throw"} : CatalogRouteReturn(resp)

CatRouteInit ==
    /\ catRequest = NONE
    /\ catPc = "idle"
    /\ catUrl = NONE
    /\ catResponse = << >>


(***************************************************************************)
(* Chat sidebar: the data context handed to the chat transport             *)
(***************************************************************************)
\* number of items of the selections the context is built from
MaxSelected == 3

\* number of workspace builds that may await the database at the same time
MaxBuilds == 2

\* the workspace database (IndexedDB): workspaces, linked tables, notes
Workspaces == {"w1", "w2"}

DbWorkspace(id) ==
    IF id = "w1" THEN [name |-> "Sales", description |-> "sales reporting"]
    ELSE [name |-> "Empty", description |-> ""]

\* db.linkedTables.where("workspaceId").equals(workspaceId): the table paths
DbLinkedTables(workspaceId) ==
    IF workspaceId = "w1" THEN << "sales.eu", "sales.us" >> ELSE << >>

\* db.tableNotes [workspaceId+tablePath] with its column notes: << >> when
\* there is none, else <<TableNote>>
DbTableNote(workspaceId, tablePath) ==
    IF workspaceId = "w1" /\ tablePath = "sales.eu"
    THEN << [ description |-> "orders of the EU shops",
              tags |-> << "finance" >>,
              columnNotes |-> << [columnName |-> "amount", description |-> "net amount"] >> ] >>
    ELSE << >>

getLinkedTablesWithNotes(workspaceId) ==
    [i \in 1..Len(DbLinkedTables(workspaceId)) |->
        [ tablePath |-> DbLinkedTables(workspaceId)[i],
          tableNote |-> DbTableNote(workspaceId, DbLinkedTables(workspaceId)[i]) ]]

\* item.columns.map(col => ({name: col.name, type: col.type}))
\* (the optional fields note, description and tags are << >> when undefined,
\* else a one-element sequence)
ContextColumns(columns) ==
    [i \in 1..Len(columns) |-> [name |-> columns[i].name, type |-> columns[i].type, note |-> << >>]]

\* tables.push({path, columns})
TableOf(item) ==
    [ path |-> item.path, columns |-> ContextColumns(item.columns),
      description |-> << >>, tags |-> << >> ]

\* mutant: the container entry carries the item's type instead of its containerType
ContainerOf_ItemType(item) ==
    [ path |-> item.path,
      type |-> item.type,
      childDatasets |->
          [i \in 1..Len(item.childDatasets) |->
              [ path |-> item.childDatasets[i].path,
                columns |-> ContextColumns(item.childDatasets[i].columns) ]] ]

\* containers.push({path, type: item.containerType || "CONTAINER", childDatasets})
ContainerOf(item) ==
    [ path |-> item.path,
      type |-> IF item.containerType # NONE THEN item.containerType ELSE "CONTAINER",
      childDatasets |->
          [i \in 1..Len(item.childDatasets) |->
              [ path |-> item.childDatasets[i].path,
                columns |-> ContextColumns(item.childDatasets[i].columns) ]] ]

\* the for loop over selectedCatalogItems, from item n on
RECURSIVE SplitSelection(_, _, _, _)
SplitSelection(items, n, tables, containers) ==
    IF n > Len(items)
    THEN [tables |-> tables, containers |-> containers]
    ELSE IF items[n].type = "DATASET"
    THEN SplitSelection(items, n + 1, Append(tables, TableOf(items[n])), containers)
    ELSE IF items[n].type = "CONTAINER"
    THEN SplitSelection(items, n + 1, tables, Append(containers, ContainerOf(items[n])))
    ELSE SplitSelection(items, n + 1, tables, containers)

\* linkedData.linkedTables.map(lt => ({path, columns, description, tags}))
WorkspaceTables(linked) ==
    [i \in 1..Len(linked) |->
        IF linked[i].tableNote # << >>
        THEN LET tableNote == linked[i].tableNote[1] IN
             [ path |-> linked[i].tablePath,
               columns |-> [j \in 1..Len(tableNote.columnNotes) |->
                               [ name |-> tableNote.columnNotes[j].columnName,
                                 type |-> "",
                                 note |-> << tableNote.columnNotes[j].description >> ]],
               description |-> << tableNote.description >>,
               tags |-> << tableNote.tags >> ]
        ELSE [ path |-> linked[i].tablePath, columns |-> << >>,
               description |-> << >>, tags |-> << >> ]]

\* the value buildDataContext passes to setDataContext (a failed read of the
\* workspace branch gives undefined like a workspace without linked tables)
buildDataContext(workspaceId, items) ==
    IF workspaceId # NONE
    THEN LET linked == getLinkedTablesWithNotes(workspaceId) IN
         IF Len(linked) = 0
         THEN << >>
         ELSE << [ tables |-> WorkspaceTables(linked),
                   containers |-> << >>,
                   workspaceName |-> DbWorkspace(workspaceId).name,
                   workspaceDescription |-> DbWorkspace(workspaceId).description ] >>
    ELSE IF Len(items) = 0
    THEN << >>
    ELSE LET split == SplitSelection(items, 1, << >>, << >>) IN
         << [ tables |-> split.tables,
              containers |-> split.containers,
              workspaceName |-> NONE,
              workspaceDescription |-> NONE ] >>

\* the effect on [selectedCatalogItems, activeWorkspaceId], run after every
\* change of either: buildDataContext up to its first await. The workspace
\* branch awaits the database; the branch without workspace has no await and
\* reaches its setDataContext within the effect
ContextEffect(workspaceId, items) ==
    IF workspaceId # NONE
    THEN /\ Len(builds) < MaxBuilds
         /\ builds' = Append(builds, workspaceId)
         /\ UNCHANGED dataContext
    ELSE /\ dataContext' = buildDataContext(NONE, items)
         /\ UNCHANGED builds

\* buildDataContext, workspace branch, after its database reads returned
BuildReturn(k) ==
    /\ k \in 1..Len(builds)
    /\ dataContext' = buildDataContext(builds[k], selectedItems)
    /\ builds' = RemoveAt(builds, k)
    /\ UNCHANGED activeWorkspaceId

\* setActiveWorkspace(id) of the workspace menu, followed by the effect
setActive(id) ==
    /\ id # activeWorkspaceId
    /\ activeWorkspaceId' = id
    /\ ContextEffect(id, selectedItems)

\* selection entries as the aggregator leaves them: just toggled on (loading)
\* or resolved with the columns / child datasets of the remote catalog
LoadingItem(entity) == NewItem(entity)

ResolvedItem(entity) ==
    IF entity.type = "DATASET"
    THEN SetColumns(<< NewItem(entity) >>, JoinPath(entity.path),
                    ToColumns(RemoteFields(entity.id)))[1]
    ELSE LET children == RemoteChildren(entity.id)
             IsDataset(c) == c.type = "DATASET"
             datasets == SelectSeq(children, IsDataset)
         IN SetChildDatasets(<< NewItem(entity) >>, JoinPath(entity.path),
                [i \in 1..Len(datasets) |->
                    [ path |-> JoinPath(datasets[i].path),
                      columns |-> ToColumns(RemoteFields(datasets[i].id)) ]])[1]

CatalogEntities ==
    {RemoteTop[i] : i \in 1..Len(RemoteTop)}
        \cup {RemoteChildren(RemoteTop[1].id)[i] : i \in 1..Len(RemoteChildren(RemoteTop[1].id))}

\* the selections one call of onSelectionChange away from items: an entry
\* toggled on (up to MaxSelected entries, no path twice), an entry resolved,
\* an entry toggled off
NextSelections(items) ==
    {Append(items, LoadingItem(e)) :
        e \in {x \in CatalogEntities :
                  Len(items) < MaxSelected /\ ~IsSelected(items, JoinPath(x.path))}}
    \cup {[items EXCEPT ![x[1]] = ResolvedItem(x[2])] :
            x \in {y \in (1..Len(items)) \X CatalogEntities : items[y[1]] = LoadingItem(y[2])}}
    \cup {RemoveAt(items, i) : i \in 1..Len(items)}

\* Page.handleSelectionChange(items), followed by the effect of the sidebar
SelectionChanged(items) ==
    /\ handleSelectionChange(items)
    /\ ContextEffect(activeWorkspaceId, items)
    /\ UNCHANGED <<flows, cleared, activeWorkspaceId>>

CtxInit ==
    /\ activeWorkspaceId = NONE
    /\ dataContext = << >>
    /\ builds = << >>


(***************************************************************************)
(* Workspace database: linking tables to workspaces                        *)
(***************************************************************************)
\* number of ids generateId hands out in one run of the model
MaxIds == 3

\* number of linkTable calls that may be suspended at the same time
MaxDbCalls == 2

\* the table paths the link functions are called with
TablePaths == {"sales.eu", "sales.us"}

\* where("[workspaceId+tablePath]").equals([workspaceId, tablePath]): the
\* index is not unique, it may hold several records of one pair
RecordsOf(workspaceId, tablePath) ==
    {r \in linkedTables : r.workspaceId = workspaceId /\ r.tablePath = tablePath}

\* Collection.first(): the record with the least primary key
First(records) == CHOOSE r \in records : \A q \in records : r.id <= q.id

\* linkTable up to its first await: the lookup is requested
linkTable(workspaceId, tablePath) ==
    /\ Len(dbCalls) < MaxDbCalls
    /\ dbCalls' = Append(dbCalls,
           [workspaceId |-> workspaceId, tablePath |-> tablePath, pc |-> "check", id |-> 0])
    /\ UNCHANGED <<linkedTables, issuedIds, lastReturn>>

\* linkTable after the lookup returned: the existing record is returned, or
\* a record with a fresh id is built and its add is requested
CheckReturn(k) ==
    /\ k \in 1..Len(dbCalls)
    /\ dbCalls[k].pc = "check"
    /\ LET existing == RecordsOf(dbCalls[k].workspaceId, dbCalls[k].tablePath) IN
       IF existing # {}
       THEN /\ lastReturn' = << First(existing) >>
            /\ dbCalls' = RemoveAt(dbCalls, k)
            /\ UNCHANGED <<linkedTables, issuedIds>>
       ELSE /\ issuedIds < MaxIds
            /\ issuedIds' = issuedIds + 1
            /\ dbCalls' = [dbCalls EXCEPT ![k].pc = "add", ![k].id = issuedIds + 1]
            /\ UNCHANGED <<linkedTables, lastReturn>>

\* linkTable after db.linkedTables.add returned: the new record is returned
AddReturn(k) ==
    /\ k \in 1..Len(dbCalls)
    /\ dbCalls[k].pc = "add"
    /\ LET linkedTable == [ id |-> dbCalls[k].id,
                            workspaceId |-> dbCalls[k].workspaceId,
                            tablePath |-> dbCalls[k].tablePath ]
       IN /\ linkedTables' = linkedTables \cup {linkedTable}
          /\ lastReturn' = << linkedTable >>
    /\ dbCalls' = RemoveAt(dbCalls, k)
    /\ UNCHANGED issuedIds

\* unlinkTable: one read-write transaction deletes every record of the pair
\* (the notes it deletes with them are not part of this model)
unlinkTable(workspaceId, tablePath) ==
    /\ linkedTables' = linkedTables \ RecordsOf(workspaceId, tablePath)
    /\ linkedTables' # linkedTables
    /\ UNCHANGED <<dbCalls, issuedIds, lastReturn>>

LinkRequested == \E w \in Workspaces, p \in TablePaths : linkTable(w, p)
LinkChecked == \E k \in 1..Len(dbCalls) : CheckReturn(k)
LinkAdded == \E k \in 1..Len(dbCalls) : AddReturn(k)
Unlinked == \E w \in Workspaces, p \in TablePaths : unlinkTable(w, p)

DbInit ==
    /\ linkedTables = {}
    /\ dbCalls = << >>
    /\ issuedIds = 0
    /\ lastReturn = << >>

(***************************************************************************)
(* Specifications                                                          *)
(***************************************************************************)
Init == SelInit /\ TreeInit /\ EditorInit /\ JobInit /\ CtxInit /\ CatRouteInit /\ DbInit

NextSel ==
    \/ ToggleSelection /\ UNCHANGED <<treeVars, editorVars, jobVars, ctxVars, catRouteVars, dbVars>>
    \/ DatasetResolved /\ UNCHANGED <<treeVars, editorVars, jobVars, ctxVars, catRouteVars, dbVars>>
    \/ ContainerListed /\ UNCHANGED <<treeVars, editorVars, jobVars, ctxVars, catRouteVars, dbVars>>
    \/ ChildResolved /\ UNCHANGED <<treeVars, editorVars, jobVars, ctxVars, catRouteVars, dbVars>>
    \/ handleClearSelection /\ UNCHANGED <<treeVars, editorVars, jobVars, ctxVars, catRouteVars, dbVars>>
SpecSel == Init /\ [][NextSel]_vars

\* the pending remote call of the resolution at position k returns
FlowReturn(k) ==
    \/ \E resp \in FetchResponses : ColumnsReturn(k, resp)
    \/ \E resp \in ListingResponses : ListingReturn(k, resp)
    \/ \E resp \in FetchResponses : ChildReturn(k, resp)

\* every remote call eventually returns: a suspended resolution keeps its
\* position, or moves towards the head, until its own call returns
SelFairness ==
    \A k \in 1..MaxFlows :
        WF_vars(FlowReturn(k) /\ UNCHANGED <<treeVars, editorVars, jobVars, ctxVars, catRouteVars, dbVars>>)

SpecSelLive == SpecSel /\ SelFairness

NextTree ==
    \/ fetchCatalog /\ UNCHANGED <<selVars, editorVars, jobVars, ctxVars, catRouteVars, dbVars>>
    \/ CatalogReturned /\ UNCHANGED <<selVars, editorVars, jobVars, ctxVars, catRouteVars, dbVars>>
    \/ ToggleExpand /\ UNCHANGED <<selVars, editorVars, jobVars, ctxVars, catRouteVars, dbVars>>
    \/ TreeFetchReturned /\ UNCHANGED <<selVars, editorVars, jobVars, ctxVars, catRouteVars, dbVars>>
SpecTree == Init /\ [][NextTree]_vars

NextEditor ==
    \/ RunButtonClick /\ UNCHANGED <<selVars, treeVars, jobVars, ctxVars, catRouteVars, dbVars>>
    \/ handleKeyDown /\ UNCHANGED <<selVars, treeVars, jobVars, ctxVars, catRouteVars, dbVars>>
    \/ QueryReturned /\ UNCHANGED <<selVars, treeVars, jobVars, ctxVars, catRouteVars, dbVars>>
SpecEditor == Init /\ [][NextEditor]_vars

NextJob ==
    \/ JobStarted /\ UNCHANGED <<selVars, treeVars, editorVars, ctxVars, catRouteVars, dbVars>>
    \/ JobSubmitted /\ UNCHANGED <<selVars, treeVars, editorVars, ctxVars, catRouteVars, dbVars>>
    \/ SleepReturn /\ UNCHANGED <<selVars, treeVars, editorVars, ctxVars, catRouteVars, dbVars>>
    \/ JobPolled /\ UNCHANGED <<selVars, treeVars, editorVars, ctxVars, catRouteVars, dbVars>>
    \/ JobDetailed /\ UNCHANGED <<selVars, treeVars, editorVars, ctxVars, catRouteVars, dbVars>>
    \/ JobResults /\ UNCHANGED <<selVars, treeVars, editorVars, ctxVars, catRouteVars, dbVars>>
SpecJob == Init /\ [][NextJob]_vars

\* the catalog route called with one of the request bodies
InitCatalogRoute ==
    /\ catRequest \in CatalogRequests
    /\ catPc = "start"
    /\ catUrl = NONE
    /\ catResponse = << >>
    /\ SelInit /\ TreeInit /\ EditorInit /\ JobInit /\ CtxInit /\ DbInit

NextCatalogRoute ==
    \/ CatalogRouteStart /\ UNCHANGED <<selVars, treeVars, editorVars, jobVars, ctxVars, dbVars>>
    \/ CatalogRouteReturned /\ UNCHANGED <<selVars, treeVars, editorVars, jobVars, ctxVars, dbVars>>
SpecCatalogRoute == InitCatalogRoute /\ [][NextCatalogRoute]_vars

BuildReturned == \E k \in 1..Len(builds) : BuildReturn(k)

NextContext ==
    \/ \E items \in NextSelections(selectedItems) :
          SelectionChanged(items) /\ UNCHANGED <<treeVars, editorVars, jobVars, catRouteVars, dbVars>>
    \/ \E id \in Workspaces \cup {NONE} :
          setActive(id) /\ UNCHANGED <<selVars, treeVars, editorVars, jobVars, catRouteVars, dbVars>>
    \/ BuildReturned /\ UNCHANGED <<selVars, treeVars, editorVars, jobVars, catRouteVars, dbVars>>
SpecContext == Init /\ [][NextContext]_vars

NextDb ==
    \/ LinkRequested /\ UNCHANGED <<selVars, treeVars, editorVars, jobVars, ctxVars, catRouteVars>>
    \/ LinkChecked /\ UNCHANGED <<selVars, treeVars, editorVars, jobVars, ctxVars, catRouteVars>>
    \/ LinkAdded /\ UNCHANGED <<selVars, treeVars, editorVars, jobVars, ctxVars, catRouteVars>>
    \/ Unlinked /\ UNCHANGED <<selVars, treeVars, editorVars, jobVars, ctxVars, catRouteVars>>
SpecDb == Init /\ [][NextDb]_vars

(***************************************************************************)
(* Claims about the selection aggregator                                   *)
(***************************************************************************)
FlowPath(k) == JoinPath(flows[k].item.path)

\* C1: when the column fetch of a dataset X resolves (fields, no fields or an
\* error) while X is not in the selection set (it was toggled off in between),
\* the selection set does not contain X afterwards.
C1_DatasetStalenessGuard ==
    [][\A k \in 1..Len(flows), resp \in FetchResponses :
          (ColumnsReturn(k, resp) /\ ~IsSelected(selectedItems, FlowPath(k)))
              => ~IsSelected(selectedItems', FlowPath(k))]_vars

\* C2: when the resolution of a container C returns (child listing or child
\* schema fetch, the final merge included) while C is not in the selection
\* set, the selection set does not contain C afterwards.
C2_ContainerStalenessGuard ==
    [][\A k \in 1..Len(flows) :
          (/\ \/ \E resp \in ListingResponses : ListingReturn(k, resp)
              \/ \E resp \in FetchResponses : ChildReturn(k, resp)
           /\ ~IsSelected(selectedItems, FlowPath(k)))
              => ~IsSelected(selectedItems', FlowPath(k))]_vars

\* C3: after handleClearSelection the selection set stays empty until the
\* next user toggle, whatever resolutions complete in between.
C3_ClearStaysEmpty == cleared => selectedItems = << >>

\* C4: the completion of a dataset's column fetch changes, in the selection
\* set current at that time, only the entry with that path (columns,
\* columnsLoaded = TRUE, columnsLoading = FALSE); every other entry of the
\* current set is kept and none is added or removed.
C4_ColumnsAppliedToCurrentSet ==
    [][\A k \in 1..Len(flows), resp \in FetchResponses :
          ColumnsReturn(k, resp) =>
              /\ RemovePath(selectedItems', FlowPath(k)) = RemovePath(selectedItems, FlowPath(k))
              /\ Len(selectedItems') = Len(selectedItems)
              /\ \A i \in 1..Len(selectedItems) :
                    selectedItems[i].path = FlowPath(k) =>
                        /\ selectedItems'[i].columnsLoaded
                        /\ ~selectedItems'[i].columnsLoading
                        /\ selectedItems'[i].path = FlowPath(k)]_vars

\* C5: the selection set never holds two entries with the same path.
C5_SelectionUnique == Cardinality(Paths(selectedItems)) = Len(selectedItems)

\* two entries selected, both resolved by completions, nothing left in flight
C5_Witness ==
    /\ Len(selectedItems) = 2
    /\ flows = << >>
    /\ \A i \in 1..2 : selectedItems[i].columnsLoaded \/ selectedItems[i].childDatasetsLoaded

\* C6: for an item selected before and after a step, a loaded flag that is
\* TRUE stays TRUE and a loading flag that is FALSE stays FALSE.
C6_LoadFlagsMonotonic ==
    [][\A i \in 1..Len(selectedItems), j \in 1..Len(selectedItems') :
          selectedItems[i].path = selectedItems'[j].path =>
              /\ selectedItems[i].columnsLoaded => selectedItems'[j].columnsLoaded
              /\ selectedItems[i].childDatasetsLoaded => selectedItems'[j].childDatasetsLoaded
              /\ ~selectedItems[i].columnsLoading => ~selectedItems'[j].columnsLoading
              /\ ~selectedItems[i].childDatasetsLoading => ~selectedItems'[j].childDatasetsLoading]_vars

(***************************************************************************)
(* Claims about the SQL editor and the SQL route                           *)
(***************************************************************************)
\* C7: the completion (success or error) of a query that was superseded by a
\* later submission is discarded: it leaves the displayed result as it is.
C7_SupersededCompletionDiscarded ==
    [][\A k \in 1..Len(requests), outcome \in QueryOutcomes :
          (QueryReturn(k, outcome) /\ requests[k] < submitted) => result' = result]_vars

C8_TimeoutState ==
    /\ statusCalls <= maxAttempts
    /\ runningPolls = maxAttempts =>
          /\ jobPc = "done"
          /\ response = << [status |-> 408, error |-> "Query timeout - job still running",
                           details |-> NONE, jobId |-> NONE] >>
          /\ statusCalls = maxAttempts
          /\ resultsCalls = 0
          /\ detailsCalls = 0

C8_NoCallAfterResponse ==
    jobPc = "done" => UNCHANGED <<jobPc, response, statusCalls, detailsCalls, resultsCalls>>

\* C8: the number of status polls of one request never exceeds 60; a job
\* answered RUNNING, STARTING or ENQUEUED on each of 60 polls ends with the
\* response 408 'Query timeout - job still running', without any results or
\* detail call, and once the response is returned no further call is issued.
C8_JobTimeout == []C8_TimeoutState /\ [][C8_NoCallAfterResponse]_vars

\* the 60th poll was answered with a running state and the request has ended
C8_Witness ==
    /\ runningPolls = maxAttempts
    /\ jobPc = "done"
    /\ response[1].status = 408

(***************************************************************************)
(* Claims about the catalog tree                                           *)
(***************************************************************************)
\* the step applies a tree update (mark loading, set children, set fields) to node id
IsTreeUpdateOf(id) ==
    \/ \E item \in Mounted(catalog, expanded) :
          /\ item.id = id
          /\ ShouldLoad(item.id \notin expanded, item)
          /\ handleToggle(item)
    \/ \E fetch \in BagToSet(treeFetches), resp \in {"ok", "fail"} :
          /\ fetch.id = id
          /\ TreeFetchReturn(fetch, resp)

IsAncestorOf(n, id) == id \in IdsOf(n.children)

DescendantsOf(items, id) ==
    UNION {NodesOf(n.children) : n \in {m \in NodesOf(items) : m.id = id}}

\* C9 as claimed: a tree update for node X leaves every node that is neither
\* X nor an ancestor of X unchanged, its children included.
C9_NoLossMerge_AsClaimed ==
    [][\A id \in IdsOf(catalog) :
          IsTreeUpdateOf(id) =>
              \A n \in NodesOf(catalog) :
                  (n.id # id /\ ~IsAncestorOf(n, id)) => n \in NodesOf(catalog')]_vars

\* C9 (amended): a tree update for node X leaves every node that is neither
\* X, nor an ancestor of X, nor a descendant of X unchanged, its children
\* included; so expanding B after its sibling A is Loaded keeps A's children.
C9_NoLossMerge ==
    [][\A id \in IdsOf(catalog) :
          IsTreeUpdateOf(id) =>
              \A n \in NodesOf(catalog) \ DescendantsOf(catalog, id) :
                  (n.id # id /\ ~IsAncestorOf(n, id)) => n \in NodesOf(catalog')]_vars

\* a container loaded with children next to a sibling that was loaded too
C9_Witness ==
    \E p \in NodesOf(catalog) :
        \E i, j \in 1..Len(p.children) :
            /\ i # j
            /\ p.children[i].isLoaded /\ Len(p.children[i].children) > 0
            /\ p.children[j].isLoaded /\ Len(p.children[j].fields) > 0

\* expanding or collapsing a node that is Loaded or Loading issues no fetch
\* and leaves the tree as it is
ToggleOfLoadedIsNoOp ==
    \A item \in Mounted(catalog, expanded) :
        (handleToggle(item) /\ (item.isLoaded \/ item.isLoading))
            => UNCHANGED <<catalog, treeFetches>>

FetchesInFlight(fetches, id) ==
    BagCardinality([f \in {g \in BagToSet(fetches) : g.id = id} |-> CopiesIn(f, fetches)])

\* C10 as claimed: expanding a Loaded or Loading node issues no remote call and
\* leaves the tree unchanged, and at most one fetch is in flight per node id.
C10_ExpandIdempotent_AsClaimed ==
    [][/\ ToggleOfLoadedIsNoOp
       /\ \A f \in BagToSet(treeFetches') : FetchesInFlight(treeFetches', f.id) <= 1]_vars

\* C10 (amended): expanding a Loaded or Loading node issues no remote call and
\* leaves the tree unchanged; at most one fetch is in flight per node id as
\* long as no top-level refresh has replaced the tree while a child or field
\* fetch was in flight.
C10_ExpandIdempotent ==
    [][/\ ToggleOfLoadedIsNoOp
       /\ ~replacedInFlight' =>
             \A f \in BagToSet(treeFetches') : FetchesInFlight(treeFetches', f.id) <= 1]_vars

\* a node that was toggled again (collapsed) while its one fetch is in flight
C10_Witness ==
    /\ ~replacedInFlight
    /\ \E n \in Mounted(catalog, expanded) :
          /\ n.isLoading
          /\ n.id \notin expanded
          /\ FetchesInFlight(treeFetches, n.id) = 1

(***************************************************************************)
(* Claims about failed resolutions of the selection                        *)
(***************************************************************************)
\* C11: when the child listing of a selected container fails (exception,
\* non-success response or no children in the answer) and the container is
\* still selected when the call returns, its entry has childDatasetsLoaded,
\* not childDatasetsLoading, and childDatasets = [] after the completion.
C11_FailSoftChildFetch ==
    [][\A k \in 1..Len(flows), resp \in {"nochildren", "throw"} :
          (ListingReturn(k, resp) /\ IsSelected(selectedItems, FlowPath(k))) =>
              /\ IsSelected(selectedItems', FlowPath(k))
              /\ \A i \in 1..Len(selectedItems') :
                    selectedItems'[i].path = FlowPath(k) =>
                        /\ selectedItems'[i].childDatasetsLoaded
                        /\ ~selectedItems'[i].childDatasetsLoading
                        /\ selectedItems'[i].childDatasets = << >>]_vars

\* a selected container resolved with no child datasets (a successful listing
\* of the container yields its datasets, so this one failed)
C11_Witness ==
    \E i \in 1..Len(selectedItems) :
        /\ selectedItems[i].type = "CONTAINER"
        /\ selectedItems[i].childDatasetsLoaded
        /\ ~selectedItems[i].childDatasetsLoading
        /\ selectedItems[i].childDatasets = << >>

\* C12: when the schema fetch of a selected dataset fails (exception,
\* non-success response or answer without fields) and the dataset is still
\* selected when the call returns, its entry has columnsLoaded, not
\* columnsLoading, and columns = [] after the completion, and the step
\* issues no further fetch.
C12_FailSoftColumnFetch ==
    [][\A k \in 1..Len(flows), resp \in {"nofields", "throw"} :
          (ColumnsReturn(k, resp) /\ IsSelected(selectedItems, FlowPath(k))) =>
              /\ IsSelected(selectedItems', FlowPath(k))
              /\ \A i \in 1..Len(selectedItems') :
                    selectedItems'[i].path = FlowPath(k) =>
                        /\ selectedItems'[i].columnsLoaded
                        /\ ~selectedItems'[i].columnsLoading
                        /\ selectedItems'[i].columns = << >>
              /\ flows' = RemoveAt(flows, k)]_vars

\* a selected dataset resolved with no columns (its schema fetch failed)
C12_Witness ==
    \E i \in 1..Len(selectedItems) :
        /\ selectedItems[i].type = "DATASET"
        /\ selectedItems[i].columnsLoaded
        /\ ~selectedItems[i].columnsLoading
        /\ selectedItems[i].columns = << >>

(***************************************************************************)
(* Claims about the termination of resolutions                             *)
(***************************************************************************)
\* the entry with this path has a resolution marked as running
IsLoadingPath(items, itemPath) ==
    \E i \in 1..Len(items) :
        /\ items[i].path = itemPath
        /\ items[i].columnsLoading \/ items[i].childDatasetsLoading

\* C13, as the state it promises once every remote call has returned: no
\* resolution is suspended any more, so no selected item is marked as
\* loading (nothing is left that could clear the mark later).
C13_ResolvedOnceCallsReturned ==
    flows = << >> =>
        \A i \in 1..Len(selectedItems) :
            ~IsLoadingPath(selectedItems, selectedItems[i].path)

\* C13: when every remote call eventually returns, every item that remains
\* selected eventually has columnsLoading = FALSE and childDatasetsLoading =
\* FALSE and stays so, whatever other items are toggled meanwhile.
C13_ResolutionLiveness ==
    \A item \in SelectableItems :
        <>[]IsSelected(selectedItems, JoinPath(item.path))
            => <>[]~IsLoadingPath(selectedItems, JoinPath(item.path))

(***************************************************************************)
(* Claims about the data context                                           *)
(***************************************************************************)
\* the step runs buildDataContext and stores its value
\* the step runs the branch of buildDataContext without workspace
IsSelectionBuild ==
    \/ activeWorkspaceId = NONE /\ \E items \in NextSelections(selectedItems) : SelectionChanged(items)
    \/ setActive(NONE)

\* the (name, type) pairs of a column list
ColumnPairs(columns) == [i \in 1..Len(columns) |-> << columns[i].name, columns[i].type >>]

\* the (path, column pairs) of a list of tables or child datasets
TablePairs(tables) ==
    [i \in 1..Len(tables) |-> << tables[i].path, ColumnPairs(tables[i].columns) >>]

\* C14: with no active workspace, the data context built from a non-empty
\* selection has as tables the selected DATASET items in selection order,
\* each with its path and its resolved (name, type) columns, and as
\* containers the selected CONTAINER items in selection order, each with its
\* path, container type and child datasets; one dataset with two columns
\* yields one table with these two columns and no container.
C14_ContextDerivation ==
    [][(IsSelectionBuild /\ Len(selectedItems') > 0) =>
          LET IsDataset(i) == i.type = "DATASET"
              IsContainer(i) == i.type = "CONTAINER"
              datasets == SelectSeq(selectedItems', IsDataset)
              selContainers == SelectSeq(selectedItems', IsContainer)
          IN /\ Len(dataContext') = 1
             /\ TablePairs(dataContext'[1].tables) = TablePairs(datasets)
             /\ Len(dataContext'[1].containers) = Len(selContainers)
             /\ \A i \in 1..Len(selContainers) :
                   /\ dataContext'[1].containers[i].path = selContainers[i].path
                   /\ dataContext'[1].containers[i].type = selContainers[i].containerType
                   /\ TablePairs(dataContext'[1].containers[i].childDatasets)
                         = TablePairs(selContainers[i].childDatasets)
             /\ selectedItems' = << ResolvedItem(RemoteChildren("k")[1]) >> =>
                   /\ TablePairs(dataContext'[1].tables) =
                         << << "sales.eu", << << "id", "INTEGER" >>,
                                              << "amount", "DECIMAL(10,2)" >> >> >> >>
                   /\ dataContext'[1].containers = << >>]_vars

\* a context built without workspace from a selection that mixes two
\* resolved datasets and a resolved container
C14_Witness ==
    /\ activeWorkspaceId = NONE
    /\ Len(selectedItems) = 3
    /\ dataContext = buildDataContext(NONE, selectedItems)
    /\ Len(dataContext) = 1
    /\ Len(dataContext[1].tables) = 2
    /\ Len(dataContext[1].containers) = 1
    /\ \A i \in 1..2 : Len(dataContext[1].tables[i].columns) > 0
    /\ Len(dataContext[1].containers[1].childDatasets) > 0

\* two contexts agree on everything but description, tags and column notes
SameButAnnotations(c1, c2) ==
    /\ Len(c1) = Len(c2)
    /\ Len(c1) = 1 =>
          /\ TablePairs(c1[1].tables) = TablePairs(c2[1].tables)
          /\ Len(c1[1].containers) = Len(c2[1].containers)
          /\ \A i \in 1..Len(c1[1].containers) :
                /\ c1[1].containers[i].path = c2[1].containers[i].path
                /\ c1[1].containers[i].type = c2[1].containers[i].type
                /\ TablePairs(c1[1].containers[i].childDatasets)
                      = TablePairs(c2[1].containers[i].childDatasets)

\* C15: the context built with an active workspace (the annotation source)
\* has the same table paths, container entries and column name/type lists
\* as the context built from the same selection without a workspace.
C15_AnnotationsAdditive ==
    [][\A k \in 1..Len(builds) :
          (BuildReturn(k) /\ builds[k] = activeWorkspaceId) =>
              SameButAnnotations(dataContext', buildDataContext(NONE, selectedItems'))]_vars

(***************************************************************************)
(* Claims about the outcomes of the SQL route                              *)
(***************************************************************************)
\* C16: the results request is issued only after a status poll returned
\* COMPLETED, at most once, and after at least one status poll; the success
\* response is returned only after it and carries the job id.
C16_SuccessPath ==
    /\ resultsCalls > 0 =>
          /\ jobStatus = "COMPLETED"
          /\ resultsCalls = 1
          /\ statusCalls >= 1
    /\ (jobPc = "done" /\ response[1].status = 200) =>
          /\ resultsCalls = 1
          /\ response[1].jobId = "jobData.id"
          /\ response[1].error = NONE

\* the outcome of a poll that returned FAILED or CANCELED, as the claim has it
FailedOutcome ==
    /\ response[1].status = 400
    /\ response[1].error = (IF jobStatus = "FAILED" THEN "Query failed" ELSE "Query canceled")
    /\ response[1].details \in {"detailsData.errorMessage", "Unknown error"}

\* after a poll returned FAILED or CANCELED: no further poll, one detail
\* request, no results request
FailedStopsPolling ==
    jobStatus \in {"FAILED", "CANCELED"} =>
        /\ jobPc \in {"details", "done"}
        /\ detailsCalls = 1
        /\ resultsCalls = 0

\* C17 as claimed: after a poll returned FAILED or CANCELED the outcome is
\* always the error naming that state, with the remote errorMessage or
\* 'Unknown error' as detail.
C17_FailedOrCanceled_AsClaimed ==
    /\ FailedStopsPolling
    /\ (jobStatus \in {"FAILED", "CANCELED"} /\ jobPc = "done") => FailedOutcome

\* C17 (amended): after a poll returned FAILED or CANCELED polling stops, one
\* detail request is made and the results endpoint is never called; when the
\* detail request returns, the outcome is the error naming that state with
\* the remote errorMessage or 'Unknown error' as detail; when the detail
\* request itself throws, the outcome is the generic 500 error.
C17_FailedOrCanceled ==
    /\ FailedStopsPolling
    /\ (jobStatus \in {"FAILED", "CANCELED"} /\ jobPc = "done") =>
          \/ FailedOutcome
          \/ /\ response[1].status = 500
             /\ response[1].error = "error.message"

\* a poll returned CANCELED and the request ended with 'Query canceled'
C17_Witness ==
    /\ jobStatus = "CANCELED"
    /\ jobPc = "done"
    /\ statusCalls >= 2
    /\ response[1].error = "Query canceled"
    /\ response[1].details = "Unknown error"

\* the request ended with an error response that carries a message
ErrorOutcome ==
    /\ jobPc' = "done"
    /\ response'[1].status >= 400
    /\ response'[1].error \notin {NONE, ""}

\* C18: a failed submit ends the request with an error outcome and no status
\* poll; a non-success status poll or results fetch ends it with an error
\* outcome that carries a non-empty error string; after any of them no
\* further remote call is issued.
C18_ErrorsEndTheJob ==
    [][/\ (\E resp \in {"notok", "throw"} : SubmitReturn(resp)) =>
              (ErrorOutcome /\ statusCalls' = 0)
       /\ (StatusReturn("notok") \/ ResultsReturn("notok")) => ErrorOutcome
       /\ (jobPc = "done" /\ response[1].status >= 400) =>
              UNCHANGED <<statusCalls, detailsCalls, resultsCalls, jobPc, response>>]_vars

\* the results fetch was answered with a non-success status after two polls
C18_Witness ==
    /\ jobPc = "done"
    /\ statusCalls >= 2
    /\ resultsCalls = 1
    /\ response[1].error = "Failed to get results: 503"

(***************************************************************************)
(* Claims about concurrent expansions                                      *)
(***************************************************************************)
\* what a node holds of its own: its load state, the ids of its children,
\* and its fields
OwnResult(n) ==
    [ id |-> n.id, isLoaded |-> n.isLoaded,
      children |-> [i \in 1..Len(n.children) |-> n.children[i].id],
      fields |-> n.fields ]

LoadedResults(items) == {OwnResult(n) : n \in {x \in NodesOf(items) : x.isLoaded}}

\* the tree holds the node of this fetch as Loaded with what the fetch returned
HasResult(items, fetch, resp) ==
    \E n \in NodesOf(items) :
        /\ n.id = fetch.id
        /\ n.isLoaded /\ ~n.isLoading
        /\ fetch.kind = "children" => n.children = LoadedUpdates(fetch, resp).children
        /\ fetch.kind = "fields" => n.fields = LoadedUpdates(fetch, resp).fields

\* the completion of a fetch whose node is in the tree installs its result
\* and keeps the loaded result of every other node
CompletionsIndependent ==
    \A fetch \in BagToSet(treeFetches), resp \in {"ok", "fail"} :
        (TreeFetchReturn(fetch, resp) /\ fetch.id \in IdsOf(catalog)) =>
            /\ HasResult(catalog', fetch, resp)
            /\ \A r \in LoadedResults(catalog) :
                  r.id # fetch.id => r \in LoadedResults(catalog')

\* the same, for the other nodes that are not below the node of the fetch
CompletionsIndependentOfOtherBranches ==
    \A fetch \in BagToSet(treeFetches), resp \in {"ok", "fail"} :
        (TreeFetchReturn(fetch, resp) /\ fetch.id \in IdsOf(catalog)) =>
            /\ HasResult(catalog', fetch, resp)
            /\ \A r \in LoadedResults(catalog) :
                  (r.id # fetch.id /\ r.id \notin {d.id : d \in DescendantsOf(catalog, fetch.id)})
                      => r \in LoadedResults(catalog')

\* C19 as claimed: expansions of different nodes never interfere: in every
\* completion order each node ends Loaded with its own fetched children and
\* no completion overwrites the result of another node.
C19_ConcurrentExpansions_AsClaimed == [][CompletionsIndependent]_vars

\* C19 (amended): expansions of different nodes A and B, neither of them an
\* ancestor of the other, never interfere: in every completion order each
\* node still in the tree ends Loaded with its own fetched children and no
\* completion overwrites the result of a node outside its own subtree.
C19_ConcurrentExpansions == [][CompletionsIndependentOfOtherBranches]_vars

\* a container and a dataset next to it are being expanded at the same time
C19_Witness ==
    \E f, g \in BagToSet(treeFetches) :
        /\ f.kind = "children" /\ g.kind = "fields"
        /\ \E n, x \in NodesOf(catalog) :
              /\ n.id = f.id /\ n.isLoading /\ ~IsAncestorOf(n, g.id)
              /\ x.id = g.id /\ x.isLoading

(***************************************************************************)
(* Claims about the catalog route                                          *)
(***************************************************************************)
\* C20: a catalog request that carries a node id is answered, when it
\* succeeds, with that node's own entity (its children or its fields), not
\* with the top-level listing.
C20_FetchNodeById ==
    (catPc = "done" /\ catRequest.id # NONE /\ catResponse[1].status = 200) =>
        /\ catResponse[1].body[1].kind = "entity"
        /\ catResponse[1].body[1].id = catRequest.id
        /\ catResponse[1].body[1].children = RemoteChildren(catRequest.id)
        /\ catResponse[1].body[1].fields = RemoteFields(catRequest.id)

(***************************************************************************)
(* Claims about failed expansions of the tree                              *)
(***************************************************************************)
\* what a node holds of its own, its loading mark included
OwnState(n) ==
    [ id |-> n.id, isLoaded |-> n.isLoaded, isLoading |-> n.isLoading,
      children |-> [i \in 1..Len(n.children) |-> n.children[i].id],
      fields |-> n.fields ]

\* the nodes that a completion for node id has to leave alone: all but the
\* node itself and the nodes below it
OtherNodes(items, id) ==
    {n \in NodesOf(items) \ DescendantsOf(items, id) : n.id # id}

\* the failed fetch of a node in the tree leaves the node Loaded, not loading
\* and empty, sets no error, and keeps every other node as it was and where
\* it was (mounted, with the same answer to the load guard of handleToggle)
FailedFetchIsSoft(fetch) ==
    /\ \E n \in NodesOf(catalog') : n.id = fetch.id
    /\ \A n \in NodesOf(catalog') :
          n.id = fetch.id =>
              /\ n.isLoaded /\ ~n.isLoading
              /\ fetch.kind = "children" => n.children = << >>
              /\ fetch.kind = "fields" => n.fields = << >>
    /\ error' = error /\ isLoading' = isLoading
    /\ \A n \in OtherNodes(catalog, fetch.id) :
          /\ IF IsAncestorOf(n, fetch.id)
             THEN \E m \in NodesOf(catalog') : OwnState(m) = OwnState(n)
             ELSE n \in NodesOf(catalog')
          /\ n \in Mounted(catalog, expanded) =>
                \E m \in Mounted(catalog', expanded') :
                    /\ m.id = n.id
                    /\ (m.id \in expanded') = (n.id \in expanded)
                    /\ ShouldLoad(TRUE, m) = ShouldLoad(TRUE, n)

\* C21: when the child fetch of a container (or the field fetch of a dataset
\* node) fails, the node ends Loaded with isLoading false and empty children
\* (empty fields), no error surfaces from the expansion, and every other
\* node of the tree is unchanged and still expandable.
C21_FailSoftExpand ==
    [][\A fetch \in BagToSet(treeFetches) :
          (TreeFetchReturn(fetch, "fail") /\ fetch.id \in IdsOf(catalog))
              => FailedFetchIsSoft(fetch)]_vars

\* a container whose child fetch failed (the remote container has children)
\* next to a sibling dataset that is loaded with its fields
C21_Witness ==
    \E p \in NodesOf(catalog) :
        \E i, j \in 1..Len(p.children) :
            /\ p.children[i].type = "CONTAINER"
            /\ p.children[i].isLoaded /\ ~p.children[i].isLoading
            /\ p.children[i].children = << >>
            /\ RemoteChildren(p.children[i].id) # << >>
            /\ p.children[j].isLoaded /\ Len(p.children[j].fields) > 0

(***************************************************************************)
(* Claims about the toggle of a selection                                  *)
(***************************************************************************)
\* the entries of a selection, as a set
Entries(items) == {items[i] : i \in 1..Len(items)}

\* toggling an unselected path appends one entry, not loaded and loading,
\* while its remote call is pending; the entries before it stay as they were
ToggleOnAddsOne(item) ==
    LET itemPath == JoinPath(item.path)
        n == Len(selectedItems)
    IN /\ Len(selectedItems') = n + 1
       /\ \A i \in 1..n : selectedItems'[i] = selectedItems[i]
       /\ selectedItems'[n + 1].path = itemPath
       /\ ~selectedItems'[n + 1].columnsLoaded
       /\ ~selectedItems'[n + 1].childDatasetsLoaded
       /\ selectedItems'[n + 1].columnsLoading = (item.type = "DATASET")
       /\ selectedItems'[n + 1].childDatasetsLoading = (item.type = "CONTAINER")
       /\ Len(flows') = Len(flows) + 1
       /\ flows'[Len(flows')].item = item
       /\ flows'[Len(flows')].pc \in {"columns", "listing"}

\* toggling a selected path removes its one entry in the same step and keeps
\* the others, in their order
ToggleOffRemovesOne(item) ==
    LET itemPath == JoinPath(item.path)
        Other(i) == i.path # itemPath
    IN /\ Len(selectedItems') = Len(selectedItems) - 1
       /\ ~IsSelected(selectedItems', itemPath)
       /\ Entries(selectedItems') = {e \in Entries(selectedItems) : e.path # itemPath}
       /\ \A i, j \in 1..Len(selectedItems') :
             i < j => \E a, b \in 1..Len(selectedItems) :
                         /\ a < b
                         /\ selectedItems[a] = selectedItems'[i]
                         /\ selectedItems[b] = selectedItems'[j]
       /\ flows' = flows

\* C22: toggling a path that is not selected adds exactly one entry for it at
\* once (before any remote call returns) with its loaded flag false and its
\* loading flag true (columnsLoading for a dataset, childDatasetsLoading for a
\* container); toggling a selected path removes exactly that entry in the
\* same step; in both cases all other entries are unchanged.
C22_ToggleSemantics ==
    [][\A item \in SelectableItems :
          handleToggleSelection(item) =>
              IF IsSelected(selectedItems, JoinPath(item.path))
              THEN ToggleOffRemovesOne(item)
              ELSE ToggleOnAddsOne(item)]_vars

\* a second path was toggled on next to an entry that is already there: the
\* new entry is loading and its remote call has not returned
C22_Witness ==
    /\ Len(selectedItems) = 2
    /\ selectedItems[2].columnsLoading \/ selectedItems[2].childDatasetsLoading
    /\ \E k \in 1..Len(flows) :
          /\ FlowPath(k) = selectedItems[2].path
          /\ flows[k].pc \in {"columns", "listing"}
          /\ flows[k].newItems = selectedItems

(***************************************************************************)
(* Claims about the resolution of a selected container                     *)
(***************************************************************************)
\* the paths of the datasets below a remote container, at any depth, in
\* listing order
RECURSIVE DescendantDatasetPaths(_, _)
DescendantDatasetPaths(children, n) ==
    IF n > Len(children) THEN << >>
    ELSE (IF children[n].type = "DATASET"
          THEN << JoinPath(children[n].path) >>
          ELSE DescendantDatasetPaths(RemoteChildren(children[n].id), 1))
         \o DescendantDatasetPaths(children, n + 1)

\* the step is the final merge of container flow k after a successful listing
ContainerResolves(k) ==
    /\ k \in 1..Len(flows)
    /\ flows[k].pc \in {"listing", "child"}
    /\ \/ ListingReturn(k, "children")
       \/ \E resp \in FetchResponses : ChildReturn(k, resp)
    /\ Len(flows') < Len(flows)

\* C23: when the resolution of a selected container completes, childDatasets
\* has one entry for every dataset that is a descendant of the container,
\* the datasets inside nested sub-containers included.
C23_ContainerCoversDescendants ==
    [][\A k \in 1..Len(flows) :
          ContainerResolves(k) =>
              \A i \in 1..Len(selectedItems') :
                  selectedItems'[i].path = FlowPath(k) =>
                      \A p \in Entries(DescendantDatasetPaths(RemoteChildren(flows[k].item.id), 1)) :
                          \E j \in 1..Len(selectedItems'[i].childDatasets) :
                              selectedItems'[i].childDatasets[j].path = p]_vars

(***************************************************************************)
(* Claims about updates for nodes that left the tree                       *)
(***************************************************************************)
\* C24: a tree update whose target id matches no node currently in the tree
\* (a completion that arrives after a refresh removed the node) is a silent
\* no-op: the tree is unchanged and no error is raised.
C24_UpdateOfAbsentNodeIsNoOp ==
    [][\A fetch \in BagToSet(treeFetches), resp \in {"ok", "fail"} :
          (TreeFetchReturn(fetch, resp) /\ fetch.id \notin IdsOf(catalog)) =>
              /\ catalog' = catalog
              /\ expanded' = expanded
              /\ error' = error
              /\ isLoading' = isLoading]_vars

\* a fetch has returned for a node that a refresh had removed, and the tree
\* is on screen
C24_Witness ==
    /\ orphanCompletion
    /\ replacedInFlight
    /\ TreeShown
    /\ Len(catalog) > 0

(***************************************************************************)
(* Claims about the load state of tree nodes                               *)
(***************************************************************************)
\* in this step every Loaded node that stays in the tree stays Loaded, does
\* not become loading, and keeps the children and fields it fetched
LoadedStaysLoaded ==
    \A n \in NodesOf(catalog), m \in NodesOf(catalog') :
        (n.id = m.id /\ n.isLoaded) =>
            /\ m.isLoaded
            /\ ~m.isLoading
            /\ OwnState(m).children = OwnState(n).children
            /\ m.fields = n.fields

\* C25 as claimed: between top-level refreshes, for a node id that stays in
\* the tree, once isLoaded is true it never becomes false, a Loaded node never
\* becomes Loading again, and its fetched children are never replaced by a
\* later completion.
C25_LoadStateMonotonic_AsClaimed ==
    [][~CatalogReturn("ok") => LoadedStaysLoaded]_vars

\* C25 (amended): the same, as long as no top-level refresh has replaced the
\* tree while a child or field fetch was in flight.
C25_LoadStateMonotonic ==
    [][(~CatalogReturn("ok") /\ ~replacedInFlight') => LoadedStaysLoaded]_vars

\* a Loaded container with a Loaded container below it, nothing in flight,
\* after the top one was collapsed and expanded again
C25_Witness ==
    /\ ~replacedInFlight
    /\ treeFetches = EmptyBag
    /\ \E n \in NodesOf(catalog) :
          /\ n.isLoaded /\ n.id \in expanded
          /\ \E i \in 1..Len(n.children) :
                /\ n.children[i].isLoaded
                /\ Len(n.children[i].children) > 0
                /\ n.children[i].id \notin expanded

(***************************************************************************)
(* Claims about the top-level listing                                      *)
(***************************************************************************)
\* C26: a successful top-level fetch replaces the whole tree by the fetched
\* root nodes, each NotLoaded with no children; a failed top-level fetch
\* leaves the tree as it is and only records an error message; in both cases
\* the top-level loading flag is false afterwards.
C26_ListTop ==
    [][/\ CatalogReturn("ok") =>
             /\ Len(catalog') = Len(RemoteTop)
             /\ \A i \in 1..Len(RemoteTop) :
                   /\ catalog'[i].id = RemoteTop[i].id
                   /\ catalog'[i].path = RemoteTop[i].path
                   /\ ~catalog'[i].isLoaded /\ ~catalog'[i].isLoading
                   /\ catalog'[i].children = << >>
             /\ error' = NONE
             /\ ~isLoading'
       /\ CatalogReturn("fail") =>
             /\ catalog' = catalog
             /\ treeFetches' = treeFetches
             /\ error' # NONE
             /\ ~isLoading']_vars

\* a refresh failed while the tree held a loaded node: the error is recorded
\* and the loaded node is still in the tree
C26_Witness ==
    /\ error # NONE
    /\ ~isLoading
    /\ \E n \in NodesOf(catalog) : n.isLoaded /\ Len(n.children) > 0

(***************************************************************************)
(* Claims about the context handed to the chat transport                   *)
(***************************************************************************)
\* C27: after any sequence of selection changes and workspace switches, once
\* all pending context builds have finished, the stored context is the one
\* derived from the most recent (selection, active workspace) pair, in
\* whatever order the asynchronous builds complete.
C27_ContextConverges ==
    builds = << >> => dataContext = buildDataContext(activeWorkspaceId, selectedItems)

(***************************************************************************)
(* Claims about the busy flag of the SQL editor                            *)
(***************************************************************************)
\* C28: isExecuting is true in every state in which at least one query
\* request is in flight, so it becomes false only when no request is in
\* flight, also when a second query is started by Ctrl/Cmd+Enter while the
\* first is still running.
C28_ExecutingWhileInFlight ==
    Len(requests) > 0 => isExecuting

(***************************************************************************)
(* Claims about failures of single children of a selected container        *)
(***************************************************************************)
\* the direct children of type DATASET of a remote container, in listing order
DirectDatasets(id) ==
    LET IsDataset(c) == c.type = "DATASET" IN SelectSeq(RemoteChildren(id), IsDataset)

\* the child datasets container flow k has gathered after this step: those of
\* the container's entry when the step was the final merge, else those the
\* suspended loop holds
GatheredAfter(k) ==
    IF Len(flows') < Len(flows)
    THEN LET Hit(i) == i.path = FlowPath(k) IN SelectSeq(selectedItems', Hit)[1].childDatasets
    ELSE flows'[k].childDatasets

\* the return of one child schema fetch adds one entry for that child, with
\* the fetched columns or, when the fetch threw or gave no fields, with none,
\* and keeps the entries gathered before; the final merge leaves the container
\* with one entry per direct dataset, in listing order, and loaded
ChildFailureIsolated(k, resp) ==
    LET f == flows[k]
        child == RemoteChildren(f.item.id)[f.next]
        datasets == DirectDatasets(f.item.id)
        gathered == GatheredAfter(k)
    IN /\ Len(gathered) = Len(f.childDatasets) + 1
       /\ \A j \in 1..Len(f.childDatasets) : gathered[j] = f.childDatasets[j]
       /\ gathered[Len(gathered)].path = JoinPath(child.path)
       /\ gathered[Len(gathered)].columns =
             (IF resp = "fields" THEN ToColumns(RemoteFields(child.id)) ELSE << >>)
       /\ \A j \in 1..Len(gathered) : gathered[j].path = JoinPath(datasets[j].path)
       /\ Len(flows') < Len(flows) =>
             /\ Len(gathered) = Len(datasets)
             /\ \A i \in 1..Len(selectedItems') :
                   selectedItems'[i].path = FlowPath(k) =>
                       /\ selectedItems'[i].childDatasetsLoaded
                       /\ ~selectedItems'[i].childDatasetsLoading

\* C29: if the schema fetch of one child dataset throws or returns no fields,
\* that child still appears in childDatasets with empty columns, all other
\* child datasets keep their fetched columns, childDatasets has exactly one
\* entry per direct child of type DATASET in listing order, and the container
\* still ends childDatasetsLoaded = true.
C29_ChildFailureIsolation ==
    [][\A k \in 1..Len(flows), resp \in FetchResponses :
          ChildReturn(k, resp) => ChildFailureIsolated(k, resp)]_vars

\* a selected container resolved with two child datasets, the first without
\* columns (its schema fetch failed), the second with its fetched columns
C29_Witness ==
    \E i \in 1..Len(selectedItems) :
        /\ selectedItems[i].type = "CONTAINER"
        /\ selectedItems[i].childDatasetsLoaded
        /\ Len(selectedItems[i].childDatasets) = 2
        /\ selectedItems[i].childDatasets[1].columns = << >>
        /\ selectedItems[i].childDatasets[2].columns # << >>

(***************************************************************************)
(* Claims about linked tables                                              *)
(***************************************************************************)
\* C30: for every interleaving of concurrent linkTable calls (and unlinkTable
\* calls), the store never holds two LinkedTable records with the same
\* (workspaceId, tablePath), and linkTable on an already linked pair returns
\* the existing record and adds nothing.
C30_LinkedTableUnique ==
    \A r, q \in linkedTables :
        (r.workspaceId = q.workspaceId /\ r.tablePath = q.tablePath) => r = q

====
